---------------------------- MODULE Spec2Model ----------------------------
(* Model of the dam/checkers server (src/server.js): the rules engine     *)
(* (capture scanner, legality checker, move executor) and the Socket.IO   *)
(* handlers that drive it (joinRoom, makeMove, resetGame, resetResponse,  *)
(* disconnect) over the process-wide room registry.                       *)
EXTENDS Integers, FiniteSets, Sequences, TLC

VARIABLES rooms, moves, ev, lastUpdate, pending

vars == <<rooms, moves, ev, lastUpdate, pending>>

-----------------------------------------------------------------------------
(* Bounds and program constants *)

\* number of moves applied to one game before the model stops applying more
MaxMoves == 2

\* const size = 8 (createInitialBoard); the literal 8 of the range checks
Size == 8

\* connections and room identifiers the clients use
Sockets == {"s1", "s2", "s3"}
RoomIds == {"r1"}

\* JavaScript values of a board square
null == "null"
undefined == "undefined"

\* game.mustContinueFrom === null
NoPos == [row |-> -9, col |-> -9]

Rows == 0 .. (Size - 1)
Pos(r, c) == [row |-> r, col |-> c]
Squares == {Pos(r, c) : r \in Rows, c \in Rows}

-----------------------------------------------------------------------------
(* JavaScript helpers *)

toLowerCase(p) == IF p = "W" THEN "w" ELSE IF p = "B" THEN "b" ELSE p
toUpperCase(p) == IF p = "w" THEN "W" ELSE IF p = "b" THEN "B" ELSE p

\* !x for a square value
Falsy(p) == p \in {null, undefined}

Abs(x) == IF x < 0 THEN -x ELSE x

\* board[r]?.[c]: undefined outside the arrays
Get(board, r, c) ==
  IF r \in Rows /\ c \in Rows THEN board[r][c] ELSE undefined

-----------------------------------------------------------------------------
(* Game logic *)

\* a setup whose white rows start one row late
createInitialBoardShort ==
  [row \in Rows |-> [col \in Rows |->
     IF row < 3 /\ (row + col) % 2 = 1 THEN "b"
     ELSE IF row > Size - 3 /\ (row + col) % 2 = 1 THEN "w"
     ELSE null]]

createInitialBoard ==
  [row \in Rows |-> [col \in Rows |->
     IF row < 3 /\ (row + col) % 2 = 1 THEN "b"
     ELSE IF row >= Size - 3 /\ (row + col) % 2 = 1 THEN "w"
     ELSE null]]

createNewGame ==
  [board |-> createInitialBoard,
   currentPlayer |-> "w",
   status |-> "waiting",
   winner |-> null,
   mustContinueFrom |-> NoPos]

directions == {<<-1, -1>>, <<-1, 1>>, <<1, -1>>, <<1, 1>>}

\* a scanner of men that does not look at the colour of the jumped piece
hasRegularCaptureFromOverAny(game, row, col) ==
  LET board == game.board
  IN \E d \in directions :
       LET midR == row + d[1]
           midC == col + d[2]
           landR == row + 2 * d[1]
           landC == col + 2 * d[2]
       IN /\ ~(landR < 0 \/ landR >= 8 \/ landC < 0 \/ landC >= 8
               \/ midR < 0 \/ midR >= 8 \/ midC < 0 \/ midC >= 8)
          /\ ~(Falsy(board[midR][midC]) \/ board[landR][landC] # null)

hasRegularCaptureFrom(game, row, col) ==
  LET board == game.board
      piece == board[row][col]
  IN \E d \in directions :
       LET midR == row + d[1]
           midC == col + d[2]
           landR == row + 2 * d[1]
           landC == col + 2 * d[2]
       IN /\ ~(landR < 0 \/ landR >= 8 \/ landC < 0 \/ landC >= 8
               \/ midR < 0 \/ midR >= 8 \/ midC < 0 \/ midC >= 8)
          /\ ~(Falsy(board[midR][midC]) \/ board[landR][landC] # null)
          /\ toLowerCase(board[midR][midC]) # toLowerCase(piece)

\* the while (true) scan of one direction, from `distance` on
RECURSIVE kingScan(_, _, _, _, _, _, _, _)
kingScan(board, piece, row, col, dr, dc, distance, foundEnemy) ==
  LET checkR == row + dr * distance
      checkC == col + dc * distance
  IN IF checkR < 0 \/ checkR >= 8 \/ checkC < 0 \/ checkC >= 8 THEN FALSE
     ELSE LET checkPiece == board[checkR][checkC]
          IN IF checkPiece = null
               THEN IF foundEnemy THEN TRUE
                    ELSE kingScan(board, piece, row, col, dr, dc, distance + 1, foundEnemy)
             ELSE IF toLowerCase(checkPiece) = toLowerCase(piece) THEN FALSE
             ELSE IF foundEnemy THEN FALSE
             ELSE kingScan(board, piece, row, col, dr, dc, distance + 1, TRUE)

hasKingCaptureFrom(game, row, col) ==
  LET board == game.board
      piece == board[row][col]
  IN \E d \in directions : kingScan(board, piece, row, col, d[1], d[2], 1, FALSE)

hasCaptureFrom(game, row, col) ==
  LET piece == Get(game.board, row, col)
  IN IF Falsy(piece) THEN FALSE
     ELSE IF piece = toUpperCase(piece) THEN hasKingCaptureFrom(game, row, col)
     ELSE hasRegularCaptureFrom(game, row, col)

getAllPlayerPieces(board, color) ==
  {p \in Squares : ~Falsy(board[p.row][p.col])
                   /\ toLowerCase(board[p.row][p.col]) = color}

playerHasAnyCapture(game, playerColor) ==
  IF game.mustContinueFrom # NoPos
    THEN hasCaptureFrom(game, game.mustContinueFrom.row, game.mustContinueFrom.col)
    ELSE \E p \in getAllPlayerPieces(game.board, playerColor) :
           hasCaptureFrom(game, p.row, p.col)

\* a path scan that does not stop at a second enemy piece
RECURSIVE kingPathOverMany(_, _, _, _, _, _, _, _, _)
kingPathOverMany(board, piece, fr, fc, dirR, dirC, distance, absDr, foundEnemy) ==
  IF ~(distance < absDr) THEN (IF foundEnemy THEN "enemy" ELSE "clear")
  ELSE LET checkPiece == board[fr + dirR * distance][fc + dirC * distance]
       IN IF checkPiece = null
            THEN kingPathOverMany(board, piece, fr, fc, dirR, dirC, distance + 1, absDr,
                                  foundEnemy)
          ELSE IF toLowerCase(checkPiece) = toLowerCase(piece) THEN "blocked"
          ELSE kingPathOverMany(board, piece, fr, fc, dirR, dirC, distance + 1, absDr, TRUE)

\* the while (distance < absDr) scan of isValidKingMove:
\* "blocked" (return false), else whether an enemy was found
RECURSIVE kingPath(_, _, _, _, _, _, _, _, _)
kingPath(board, piece, fr, fc, dirR, dirC, distance, absDr, foundEnemy) ==
  IF ~(distance < absDr) THEN (IF foundEnemy THEN "enemy" ELSE "clear")
  ELSE LET checkPiece == board[fr + dirR * distance][fc + dirC * distance]
       IN IF checkPiece = null
            THEN kingPath(board, piece, fr, fc, dirR, dirC, distance + 1, absDr, foundEnemy)
          ELSE IF toLowerCase(checkPiece) = toLowerCase(piece) THEN "blocked"
          ELSE IF foundEnemy THEN "blocked"
          ELSE kingPath(board, piece, fr, fc, dirR, dirC, distance + 1, absDr, TRUE)

isValidKingMove(game, from, to, piece, mustContinueFrom) ==
  LET board == game.board
      fr == from.row
      fc == from.col
      tr == to.row
      tc == to.col
      dr == tr - fr
      dc == tc - fc
      absDr == Abs(dr)
      absDc == Abs(dc)
      dirR == IF dr > 0 THEN 1 ELSE -1
      dirC == IF dc > 0 THEN 1 ELSE -1
  IN IF absDr # absDc THEN FALSE
     ELSE IF absDr < 1 THEN FALSE
     ELSE LET path == kingPath(board, piece, fr, fc, dirR, dirC, 1, absDr, FALSE)
          IN IF path = "blocked" THEN FALSE
             ELSE IF board[tr][tc] # null THEN FALSE
             ELSE IF path = "enemy" THEN TRUE
             ELSE IF mustContinueFrom # NoPos THEN FALSE
             ELSE TRUE

\* let isCapture of isValidMove
isCaptureShape(board, piece, fr, fc, tr, tc) ==
  LET dr == tr - fr
      dc == tc - fc
      absDr == Abs(dr)
      absDc == Abs(dc)
      dirR == IF dr > 0 THEN 1 ELSE -1
      dirC == IF dc > 0 THEN 1 ELSE -1
  IN IF piece = toUpperCase(piece)
       THEN \E dist \in 1 .. (absDr - 1) :
              LET checkPiece == Get(board, fr + dirR * dist, fc + dirC * dist)
              IN ~Falsy(checkPiece) /\ toLowerCase(checkPiece) # toLowerCase(piece)
       ELSE absDr = 2 /\ absDc = 2

\* a chain check that lets a piece on the row or the column of the chain
\* square move
leavesChainOffBoth(mustContinueFrom, fr, fc) ==
  /\ mustContinueFrom # NoPos
  /\ (mustContinueFrom.row # fr /\ mustContinueFrom.col # fc)

\* if (mustContinueFrom) { if (row !== fr || col !== fc) return false }
leavesChain(mustContinueFrom, fr, fc) ==
  /\ mustContinueFrom # NoPos
  /\ (mustContinueFrom.row # fr \/ mustContinueFrom.col # fc)

\* an engine without the mandatory capture rule
captureOptional(isCapture, hasAnyCapture) == FALSE

\* MANDATORY CAPTURE RULE: if (!isCapture && playerHasAnyCapture(...)) return false
evadesCapture(isCapture, hasAnyCapture) == ~isCapture /\ hasAnyCapture

\* a jump check that does not look at the colour of the jumped piece
isValidJumpOverAny(board, piece, fr, fc, dr, dc) ==
  LET midPiece == Get(board, fr + dr \div 2, fc + dc \div 2)
  IN IF Falsy(midPiece) THEN FALSE
     ELSE TRUE

\* a jump check that holds men to their forward direction
isValidJumpForward(board, piece, fr, fc, dr, dc) ==
  LET midPiece == Get(board, fr + dr \div 2, fc + dc \div 2)
  IN IF Falsy(midPiece) THEN FALSE
     ELSE IF toLowerCase(midPiece) = toLowerCase(piece) THEN FALSE
     ELSE IF toLowerCase(piece) = "w" /\ dr >= 0 THEN FALSE
     ELSE IF toLowerCase(piece) # "w" /\ dr <= 0 THEN FALSE
     ELSE TRUE

\* if (isCapture) { ... } of a regular piece: the jumped square
isValidJump(board, piece, fr, fc, dr, dc) ==
  LET midPiece == Get(board, fr + dr \div 2, fc + dc \div 2)
  IN IF Falsy(midPiece) THEN FALSE
     ELSE IF toLowerCase(midPiece) = toLowerCase(piece) THEN FALSE
     ELSE TRUE

\* isValidMove, given the value hasAnyCapture that the call
\* playerHasAnyCapture(game, playerColor) of the mandatory capture rule
\* returns (the call reads nothing but the game and the colour)
isValidMoveGiven(game, from, to, playerColor, hasAnyCapture) ==
  IF game.status # "playing" THEN FALSE
  ELSE IF game.currentPlayer # playerColor THEN FALSE
  ELSE IF from.row = to.row /\ from.col = to.col THEN FALSE
  ELSE IF to.row < 0 \/ to.row >= 8 \/ to.col < 0 \/ to.col >= 8 THEN FALSE
  ELSE LET piece == Get(game.board, from.row, from.col)
       IN IF Falsy(piece) THEN FALSE
          ELSE IF toLowerCase(piece) # playerColor THEN FALSE
          ELSE IF leavesChain(game.mustContinueFrom, from.row, from.col) THEN FALSE
          ELSE IF game.board[to.row][to.col] # null THEN FALSE
          ELSE LET board == game.board
                   mustContinueFrom == game.mustContinueFrom
                   fr == from.row
                   fc == from.col
                   tr == to.row
                   tc == to.col
                   dr == tr - fr
                   dc == tc - fc
                   absDr == Abs(dr)
                   absDc == Abs(dc)
                   isWhite == toLowerCase(piece) = "w"
                   isKing == piece = toUpperCase(piece)
                   isCapture == isCaptureShape(board, piece, fr, fc, tr, tc)
                   isSimpleMove == absDr = 1 /\ absDc = 1
               IN IF evadesCapture(isCapture, hasAnyCapture) THEN FALSE
                  ELSE IF isKing
                    THEN isValidKingMove(game, from, to, piece, mustContinueFrom)
                  ELSE IF ~isCapture /\ ~isSimpleMove THEN FALSE
                  ELSE IF isCapture THEN isValidJump(board, piece, fr, fc, dr, dc)
                  ELSE IF mustContinueFrom # NoPos THEN FALSE
                  ELSE IF isWhite /\ dr >= 0 THEN FALSE
                  ELSE IF ~isWhite /\ dr <= 0 THEN FALSE
                  ELSE TRUE

isValidMove(game, from, to, playerColor) ==
  isValidMoveGiven(game, from, to, playerColor, playerHasAnyCapture(game, playerColor))

\* the square of the first enemy piece on the king's path, NoPos if none
jumpedByKing(board, piece, fr, fc, tr, tc) ==
  LET dr == tr - fr
      dc == tc - fc
      absDr == Abs(dr)
      dirR == IF dr > 0 THEN 1 ELSE -1
      dirC == IF dc > 0 THEN 1 ELSE -1
      hits == {dist \in 1 .. (absDr - 1) :
                 LET checkPiece == Get(board, fr + dirR * dist, fc + dirC * dist)
                 IN ~Falsy(checkPiece) /\ toLowerCase(checkPiece) # toLowerCase(piece)}
  IN IF hits = {} THEN NoPos
     ELSE LET first == CHOOSE d \in hits : \A e \in hits : d <= e
          IN Pos(fr + dirR * first, fc + dirC * first)

\* a promotion that crowns both colours on row 0
promoteOnRowZero(piece, tr) ==
  IF piece = "w" /\ tr = 0 THEN "W"
  ELSE IF piece = "b" /\ tr = 0 THEN "B"
  ELSE piece

\* King promotion
promote(piece, tr) ==
  IF piece = "w" /\ tr = 0 THEN "W"
  ELSE IF piece = "b" /\ tr = 7 THEN "B"
  ELSE piece

\* a move executor whose king takes nothing off the board
capturedByMenOnly(board, from, to) ==
  LET fr == from.row
      fc == from.col
      dr == to.row - fr
      dc == to.col - fc
      piece == board[fr][fc]
  IN IF piece = toUpperCase(piece) THEN NoPos
     ELSE IF Abs(dr) = 2 /\ Abs(dc) = 2 THEN Pos(fr + dr \div 2, fc + dc \div 2)
     ELSE NoPos

\* the removed square of applyMove, NoPos when didCapture stays false
captured(board, from, to) ==
  LET fr == from.row
      fc == from.col
      tr == to.row
      tc == to.col
      dr == tr - fr
      dc == tc - fc
      piece == board[fr][fc]
  IN IF piece = toUpperCase(piece) THEN jumpedByKing(board, piece, fr, fc, tr, tc)
     ELSE IF Abs(dr) = 2 /\ Abs(dc) = 2 THEN Pos(fr + dr \div 2, fc + dc \div 2)
     ELSE NoPos

\* a continuation decision that keeps the turn after every capture
nextTurnAfterAnyCapture(game, didCapture, tr, tc) ==
  IF didCapture
    THEN [game EXCEPT !.mustContinueFrom = Pos(tr, tc)]
    ELSE [game EXCEPT !.mustContinueFrom = NoPos,
                      !.currentPlayer = IF game.currentPlayer = "w" THEN "b" ELSE "w"]

\* a continuation decision that opens a chain after a move that took nothing
nextTurnAfterAnyMove(game, didCapture, tr, tc) ==
  IF didCapture \/ hasCaptureFrom(game, tr, tc)
    THEN [game EXCEPT !.mustContinueFrom = Pos(tr, tc)]
    ELSE [game EXCEPT !.mustContinueFrom = NoPos,
                      !.currentPlayer = IF game.currentPlayer = "w" THEN "b" ELSE "w"]

\* a continuation decision that ends the game when the next player has no piece
nextTurnDeclaringWinner(game, didCapture, tr, tc) ==
  IF didCapture /\ hasCaptureFrom(game, tr, tc)
    THEN [game EXCEPT !.mustContinueFrom = Pos(tr, tc)]
    ELSE LET next == IF game.currentPlayer = "w" THEN "b" ELSE "w"
         IN IF getAllPlayerPieces(game.board, next) = {}
              THEN [game EXCEPT !.mustContinueFrom = NoPos, !.currentPlayer = next,
                                !.status = "finished", !.winner = game.currentPlayer]
              ELSE [game EXCEPT !.mustContinueFrom = NoPos, !.currentPlayer = next]

\* the continuation decision at the end of applyMove
nextTurn(game, didCapture, tr, tc) ==
  IF didCapture /\ hasCaptureFrom(game, tr, tc)
    THEN [game EXCEPT !.mustContinueFrom = Pos(tr, tc)]
    ELSE [game EXCEPT !.mustContinueFrom = NoPos,
                      !.currentPlayer = IF game.currentPlayer = "w" THEN "b" ELSE "w"]

applyMove(game, from, to) ==
  LET board == game.board
      fr == from.row
      fc == from.col
      tr == to.row
      tc == to.col
      piece == board[fr][fc]
      cap == captured(board, from, to)
      didCapture == cap # NoPos
      b1 == [board EXCEPT ![fr][fc] = null]
      b2 == IF didCapture THEN [b1 EXCEPT ![cap.row][cap.col] = null] ELSE b1
      b3 == [b2 EXCEPT ![tr][tc] = promote(piece, tr)]
  IN nextTurn([game EXCEPT !.board = b3], didCapture, tr, tc)

-----------------------------------------------------------------------------
(* Room registry *)

\* the registry after getRoom(roomId): the room is created when missing
getRoom(rs, roomId) ==
  IF roomId \in DOMAIN rs THEN rs
  ELSE [r \in DOMAIN rs \cup {roomId} |->
          IF r = roomId THEN [game |-> createNewGame, players |-> <<>>] ELSE rs[r]]

countPlayers(room) == Cardinality(DOMAIN room.players)

getPlayerColor(room, socketId) ==
  IF socketId \in DOMAIN room.players THEN room.players[socketId].color ELSE undefined

\* room.players[socket.id] = {name, color}
setPlayer(players, socketId, color) ==
  [s \in DOMAIN players \cup {socketId} |->
     IF s = socketId THEN [name |-> "Player", color |-> color] ELSE players[s]]

\* delete room.players[socket.id]
deletePlayer(players, socketId) ==
  [s \in DOMAIN players \ {socketId} |-> players[s]]

\* the last event that emitted something: the handler, what it emitted, the
\* room, and for the events that change a room who sent them and (for an
\* applied move) the move
Event(type, reply, roomId, socket, from, to) ==
  [type |-> type, reply |-> reply, room |-> roomId, socket |-> socket,
   from |-> from, to |-> to]

-----------------------------------------------------------------------------
(* Socket.IO events *)

\* A handler that returns before it emits or assigns anything (an unknown
\* room, a socket that is no player of the room, an empty room id) leaves
\* the state as it is: those requests are the stuttering steps.

\* a handler that emits no gameUpdate
broadcastNothing(updates, roomId, game) == updates

\* io.to(roomId).emit("gameUpdate", game): the snapshot the room last got
broadcast(updates, roomId, game) ==
  [r \in DOMAIN updates \cup {roomId} |-> IF r = roomId THEN game ELSE updates[r]]

\* a guard that lets a third player in
isRoomFullPastTwo(playersCount) == playersCount > 2

\* if (playersCount >= 2) { socket.emit("roomFull"); return; }
isRoomFull(playersCount) == playersCount >= 2

joinRoom(socket, roomId) ==
  /\ roomId # ""
  /\ LET rs == getRoom(rooms, roomId)
         room == rs[roomId]
         playersCount == countPlayers(room)
         color == IF playersCount = 0 THEN "w" ELSE "b"
         joined == [room EXCEPT !.players = setPlayer(room.players, socket, color)]
         started == IF countPlayers(joined) = 2
                      THEN [joined EXCEPT !.game.status = "playing"]
                      ELSE joined
     IN IF isRoomFull(playersCount)
          THEN /\ rooms' = rs
               /\ ev' = Event("joinRoom", "roomFull", roomId, socket, NoPos, NoPos)
               /\ UNCHANGED <<moves, lastUpdate, pending>>
          ELSE /\ rooms' = [rs EXCEPT ![roomId] = started]
               /\ ev' = Event("joinRoom", "joinedRoom", roomId, socket, NoPos, NoPos)
               /\ lastUpdate' = broadcast(lastUpdate, roomId, started.game)
               /\ UNCHANGED <<moves, pending>>

\* let isSimpleMoveAttempt of the rejection branch of makeMove
isSimpleMoveAttempt(board, piece, from, to) ==
  LET fr == from.row
      fc == from.col
      tr == to.row
      tc == to.col
      dr == tr - fr
      dc == tc - fc
      absDr == Abs(dr)
      absDc == Abs(dc)
      dirR == IF dr > 0 THEN 1 ELSE -1
      dirC == IF dc > 0 THEN 1 ELSE -1
      hasEnemyInPath ==
        \E dist \in 1 .. (absDr - 1) :
          LET checkPiece == Get(board, fr + dirR * dist, fc + dirC * dist)
          IN ~Falsy(checkPiece) /\ toLowerCase(checkPiece) # toLowerCase(piece)
  IN IF piece = toUpperCase(piece)
       THEN absDr = absDc /\ absDr > 0 /\ ~hasEnemyInPath /\ Get(board, tr, tc) = null
       ELSE absDr = 1 /\ absDc = 1 /\ Get(board, tr, tc) = null

\* a handler that knows the generic rejection only
rejectionGeneric(game, playerColor, from, to, hasAnyCapture) == "invalidMove"

\* what the makeMove handler emits for a request it rejects, given the value
\* hasAnyCapture of playerHasAnyCapture(game, playerColor)
rejectionGiven(game, playerColor, from, to, hasAnyCapture) ==
  LET piece == Get(game.board, from.row, from.col)
  IN IF /\ ~Falsy(piece)
        /\ toLowerCase(piece) = playerColor
        /\ isSimpleMoveAttempt(game.board, piece, from, to)
        /\ hasAnyCapture THEN "mustCapture"
     ELSE "invalidMove"

\* what the makeMove handler emits for a request ("none": it returns at once)
makeMoveReply(rs, socket, roomId, from, to) ==
  IF roomId \notin DOMAIN rs THEN "none"
  ELSE LET room == rs[roomId]
           game == room.game
           playerColor == getPlayerColor(room, socket)
       IN IF playerColor = undefined THEN "none"
          ELSE IF isValidMove(game, from, to, playerColor) THEN "gameUpdate"
          ELSE rejectionGiven(game, playerColor, from, to,
                              playerHasAnyCapture(game, playerColor))

\* the event a makeMove request {roomId, from, to} of a player of the room
\* makes: the reply, for mustCapture the socket it is emitted to and, when
\* the move is applied, the sender and the move
moveEvent(roomId, game, socket, playerColor, from, to, hasAnyCapture) ==
  IF isValidMoveGiven(game, from, to, playerColor, hasAnyCapture)
    THEN Event("makeMove", "gameUpdate", roomId, socket, from, to)
    ELSE LET reply == rejectionGiven(game, playerColor, from, to, hasAnyCapture)
         IN Event("makeMove", reply, roomId,
                  IF reply = "mustCapture" THEN socket ELSE "-", NoPos, NoPos)

\* the squares a request from `from` is evaluated for: `from` itself and the
\* squares of its diagonals. A request to any other square is rejected by
\* isValidMove (a man: neither capture nor simple move; a king: absDr !==
\* absDc) and answered invalidMove, as the request to `from` itself is.
targets(from) ==
  {to \in Squares : to = from \/ Abs(to.row - from.row) = Abs(to.col - from.col)}

\* the events of all the requests of a player of the room
allMoveEvents(roomId, room, socket) ==
  LET game == room.game
      playerColor == getPlayerColor(room, socket)
      hasAnyCapture == playerHasAnyCapture(game, playerColor)
  IN {moveEvent(roomId, game, socket, playerColor, from, to, hasAnyCapture) :
        from \in Squares, to \in Squares}

\* a handler that validates a request for the player to move, whoever sent it
moveEventsOfTurn(roomId, room, socket) ==
  LET game == room.game
      playerColor == game.currentPlayer
      hasAnyCapture == playerHasAnyCapture(game, playerColor)
      own == getAllPlayerPieces(game.board, playerColor)
  IN UNION {IF from \in own
              THEN {moveEvent(roomId, game, socket, playerColor, from, to, hasAnyCapture) :
                      to \in targets(from)}
              ELSE {moveEvent(roomId, game, socket, playerColor, from, from, hasAnyCapture)} :
            from \in Squares}

\* allMoveEvents, computed with one request per `from` that holds no piece of
\* the player (isValidMove rejects it at the piece check at the latest and the
\* rejection branch skips to invalidMove, whatever `to` is) and with the
\* requests to targets(from) for the others
moveEvents(roomId, room, socket) ==
  LET game == room.game
      playerColor == getPlayerColor(room, socket)
      hasAnyCapture == playerHasAnyCapture(game, playerColor)
      own == getAllPlayerPieces(game.board, playerColor)
  IN UNION {IF from \in own
              THEN {moveEvent(roomId, game, socket, playerColor, from, to, hasAnyCapture) :
                      to \in targets(from)}
              ELSE {moveEvent(roomId, game, socket, playerColor, from, from, hasAnyCapture)} :
            from \in Squares}

\* a position the request left out (from or to is undefined)
MissingPos == [row |-> -7, col |-> -7]

\* const { row: fr, col: fc } = from; const { row: tr, col: tc } = to;
\* of a position the request left out: a TypeError
destructureThrows(from, to) == from = MissingPos \/ to = MissingPos

\* isValidMove throws (it returns false before it reads the positions when
\* the game is not playing or it is not the turn of the colour)
isValidMoveThrows(game, from, to, playerColor) ==
  IF game.status # "playing" THEN FALSE
  ELSE IF game.currentPlayer # playerColor THEN FALSE
  ELSE destructureThrows(from, to)

\* the makeMove handler throws: in isValidMove, or else in the rejection
\* branch, which isValidMove's early return false leads to and which reads the
\* positions first
makeMoveThrows(game, from, to, playerColor) ==
  \/ isValidMoveThrows(game, from, to, playerColor)
  \/ destructureThrows(from, to)

\* the requests of a player of the room that leave out from, to or both
MalformedRequests ==
  {q \in (Squares \cup {MissingPos}) \X (Squares \cup {MissingPos}) :
     q[1] = MissingPos \/ q[2] = MissingPos}

\* the events of those requests: the handler throws before it assigns or
\* emits anything, so the registry is as it was when the exception leaves it
faultEvents(roomId, room, socket) ==
  LET game == room.game
      playerColor == getPlayerColor(room, socket)
  IN {Event("makeMove", "TypeError", roomId, "-", NoPos, NoPos) :
        q \in {q \in MalformedRequests : makeMoveThrows(game, q[1], q[2], playerColor)}}

\* a handler whose rejection passes the turn
roomAfterTurnLost(room, e) ==
  IF e.reply = "gameUpdate"
    THEN [room EXCEPT !.game = applyMove(@, e.from, e.to)]
    ELSE [room EXCEPT !.game.currentPlayer = IF @ = "w" THEN "b" ELSE "w"]

\* the room after the makeMove handler has handled a request
roomAfter(room, e) ==
  IF e.reply = "gameUpdate"
    THEN [room EXCEPT !.game = applyMove(@, e.from, e.to)]
    ELSE room

\* the snapshots after the makeMove handler has handled a request
updatesAfter(updates, roomId, room, e) ==
  IF e.reply = "gameUpdate"
    THEN broadcast(updates, roomId, roomAfter(room, e).game)
    ELSE updates

\* one request of a socket. Requests that make the same event are the same
\* step: the rejected ones differ in nothing but the reply.
makeMove(socket, roomId) ==
  /\ roomId \in DOMAIN rooms
  /\ getPlayerColor(rooms[roomId], socket) # undefined
  /\ \E e \in moveEvents(roomId, rooms[roomId], socket)
              \cup faultEvents(roomId, rooms[roomId], socket) :
       /\ e.reply = "gameUpdate" => moves[roomId] < MaxMoves
       /\ rooms' = [rooms EXCEPT ![roomId] = roomAfter(@, e)]
       /\ moves' = [moves EXCEPT ![roomId] = IF e.reply = "gameUpdate" THEN @ + 1 ELSE @]
       /\ lastUpdate' = updatesAfter(lastUpdate, roomId, rooms[roomId], e)
       /\ ev' = e
       /\ UNCHANGED pending

\* The server keeps no record of a reset request: resetGame only emits
\* resetRequest {fromPlayer, requesterId} to the other sockets of the room.
\* pending[roomId] is the history of that emission: the socket whose request
\* is the last one emitted and not yet answered by a resetResponse for the
\* room ("-" when there is none); no handler reads it.
resetGame(socket, roomId) ==
  /\ roomId \in DOMAIN rooms
  /\ getPlayerColor(rooms[roomId], socket) # undefined
  /\ ev' = Event("resetGame", "resetRequest", roomId, "-", NoPos, NoPos)
  /\ pending' = [pending EXCEPT ![roomId] = socket]
  /\ UNCHANGED <<rooms, moves, lastUpdate>>

\* a reset that leaves the new game waiting
resetRoomWaiting(room) ==
  [room EXCEPT !.game = createNewGame]

\* room.game = createNewGame() and the status of a room with two players
resetRoom(room) ==
  [room EXCEPT !.game = IF countPlayers(room) = 2
                          THEN [createNewGame EXCEPT !.status = "playing"]
                          ELSE createNewGame]

resetResponse(socket, roomId, accepted) ==
  /\ roomId \in DOMAIN rooms
  /\ pending' = [pending EXCEPT ![roomId] = "-"]
  /\ IF accepted
       THEN /\ rooms' = [rooms EXCEPT ![roomId] = resetRoom(@)]
            /\ moves' = [moves EXCEPT ![roomId] = 0]
            /\ lastUpdate' = broadcast(lastUpdate, roomId, resetRoom(rooms[roomId]).game)
            /\ ev' = Event("resetResponse", "resetConfirmed", roomId, socket, NoPos, NoPos)
       ELSE /\ ev' = Event("resetResponse", "resetDeclined", roomId, "-", NoPos, NoPos)
            /\ UNCHANGED <<rooms, moves, lastUpdate>>

\* the rooms the socket is a player of
roomsOf(rs, socket) == {r \in DOMAIN rs : socket \in DOMAIN rs[r].players}

\* the snapshots after a disconnect: a room that keeps a player gets the new
\* game; a room that is deleted has nobody left to hold a snapshot
updatesAfterLeave(updates, mine, emptied) ==
  [r \in DOMAIN updates \ emptied |-> IF r \in mine THEN createNewGame ELSE updates[r]]

\* a disconnect that keeps the room of the last player, and its game
disconnectKeepingRoom(socket) ==
  LET mine == roomsOf(rooms, socket)
      remaining == {r \in mine : countPlayers(rooms[r]) > 1}
  IN /\ mine # {}
     /\ rooms' = [r \in DOMAIN rooms |->
                    IF r \in mine
                      THEN [game |-> IF r \in remaining THEN createNewGame ELSE rooms[r].game,
                            players |-> deletePlayer(rooms[r].players, socket)]
                      ELSE rooms[r]]
     /\ moves' = [r \in RoomIds |-> IF r \in remaining THEN 0 ELSE moves[r]]
     /\ lastUpdate' = updatesAfterLeave(lastUpdate, remaining, {})
     /\ ev' = Event("disconnect", "playerLeft", "-", socket, NoPos, NoPos)
     /\ pending' = [r \in RoomIds |-> IF r \in mine THEN "-" ELSE pending[r]]

disconnect(socket) ==
  LET mine == roomsOf(rooms, socket)
      emptied == {r \in mine : countPlayers(rooms[r]) = 1}
  IN /\ mine # {}
     /\ rooms' = [r \in DOMAIN rooms \ emptied |->
                    IF r \in mine
                      THEN [game |-> createNewGame,
                            players |-> deletePlayer(rooms[r].players, socket)]
                      ELSE rooms[r]]
     /\ moves' = [r \in RoomIds |-> IF r \in mine THEN 0 ELSE moves[r]]
     /\ lastUpdate' = updatesAfterLeave(lastUpdate, mine, emptied)
     /\ ev' = Event("disconnect", "playerLeft", "-", socket, NoPos, NoPos)
     /\ pending' = [r \in RoomIds |-> IF r \in mine THEN "-" ELSE pending[r]]

-----------------------------------------------------------------------------
(* Specifications *)

RoomInputs == RoomIds \cup {""}

\* const rooms = {}
Init ==
  /\ rooms = <<>>
  /\ moves = [r \in RoomIds |-> 0]
  /\ ev = Event("listen", "none", "-", "-", NoPos, NoPos)
  /\ lastUpdate = <<>>
  /\ pending = [r \in RoomIds |-> "-"]

Next ==
  \/ \E s \in Sockets, r \in RoomInputs : joinRoom(s, r)
  \/ \E s \in Sockets, r \in RoomInputs : makeMove(s, r)
  \/ \E s \in Sockets, r \in RoomInputs : resetGame(s, r)
  \/ \E s \in Sockets, r \in RoomInputs, accepted \in BOOLEAN :
       resetResponse(s, r, accepted)
  \/ \E s \in Sockets : disconnect(s)

Spec == Init /\ [][Next]_vars

\* Mid-game positions (row, column, piece), all on dark squares: games in
\* progress that the rules engine is given
\* two white men that can capture; one has a chain of three captures, the
\* last one backward
ChainPosition ==
  {<<5, 2, "w">>, <<5, 4, "w">>,
   <<4, 3, "b">>, <<4, 5, "b">>, <<2, 3, "b">>, <<2, 1, "b">>, <<0, 7, "b">>}
\* a white man that captures onto row 0 and can go on as a king only
CrownPosition ==
  {<<2, 1, "w">>, <<1, 2, "b">>, <<2, 5, "b">>}
\* a white king with one enemy, two enemies and an own man on its diagonals
KingPosition ==
  {<<4, 3, "W">>, <<5, 2, "w">>,
   <<2, 5, "b">>, <<3, 2, "b">>, <<2, 1, "b">>, <<6, 1, "b">>}
\* men one step from the last row, and kings, with no capture on the board
QuietPosition ==
  {<<1, 2, "w">>, <<7, 0, "W">>, <<6, 3, "b">>, <<0, 5, "B">>}

Positions == {ChainPosition, CrownPosition, KingPosition, QuietPosition}

boardOf(pieces) ==
  [row \in Rows |-> [col \in Rows |->
     IF \E t \in pieces : t[1] = row /\ t[2] = col
       THEN (CHOOSE t \in pieces : t[1] = row /\ t[2] = col)[3]
       ELSE null]]

\* a room with two players whose game is in progress
InitMid ==
  /\ \E pieces \in Positions, player \in {"w", "b"} :
       rooms = [r \in {"r1"} |->
                  [game |-> [createNewGame EXCEPT !.board = boardOf(pieces),
                                                  !.currentPlayer = player,
                                                  !.status = "playing"],
                   players |-> setPlayer(setPlayer(<<>>, "s1", "w"), "s2", "b")]]
  /\ moves = [r \in RoomIds |-> 0]
  /\ ev = Event("joinRoom", "joinedRoom", "r1", "s2", NoPos, NoPos)
  /\ lastUpdate = [r \in DOMAIN rooms |-> rooms[r].game]
  /\ pending = [r \in RoomIds |-> "-"]

SpecMid == InitMid /\ [][Next]_vars

-----------------------------------------------------------------------------
(* The step of makeMove ranges over all the requests *)

\* moveEvents leaves out no event of the 64 x 64 requests of a player
MoveEventsAreAllRequests ==
  \A r \in DOMAIN rooms : \A s \in DOMAIN rooms[r].players :
    moveEvents(r, rooms[r], s) = allMoveEvents(r, rooms[r], s)

-----------------------------------------------------------------------------
(* Vocabulary of the properties *)

other(color) == IF color = "w" THEN "b" ELSE "w"

isMan(p) == p \in {"w", "b"}
isKingPiece(p) == p \in {"W", "B"}
colorOf(p) == IF p \in {"w", "W"} THEN "w" ELSE IF p \in {"b", "B"} THEN "b" ELSE "-"

\* the squares that hold a piece of the colour
squaresOf(board, color) == {p \in Squares : colorOf(board[p.row][p.col]) = color}

onDiagonal(from, to) ==
  from # to /\ Abs(to.row - from.row) = Abs(to.col - from.col)

\* the squares strictly between two squares of one diagonal
between(from, to) ==
  {p \in Squares : /\ onDiagonal(from, p) /\ onDiagonal(p, to)
                   /\ Abs(p.row - from.row) + Abs(to.row - p.row) = Abs(to.row - from.row)
                   /\ Abs(p.col - from.col) + Abs(to.col - p.col) = Abs(to.col - from.col)}

\* the move passes over at least one piece of the other colour
jumpsEnemy(board, from, to, color) ==
  onDiagonal(from, to) /\ between(from, to) \cap squaresOf(board, other(color)) # {}

\* the step is a makeMove request that was applied
MoveApplied == ev'.type = "makeMove" /\ ev'.reply = "gameUpdate"

\* the step is a makeMove request that was rejected
MoveRejected == ev'.type = "makeMove" /\ ev'.reply \in {"invalidMove", "mustCapture"}

-----------------------------------------------------------------------------
(* Properties *)

\* C1: every applied move either keeps the turn and sets mustContinueFrom to
\* the landing square (when it captured a piece and hasCaptureFrom holds at
\* the landing square of the resulting board), or else passes the turn to the
\* other colour and clears mustContinueFrom.
TurnRule ==
  [][MoveApplied =>
       LET g == rooms[ev'.room].game
           g2 == rooms'[ev'.room].game
           to == ev'.to
           opp == other(g.currentPlayer)
           tookOne == Cardinality(squaresOf(g2.board, opp))
                        < Cardinality(squaresOf(g.board, opp))
       IN IF tookOne /\ hasCaptureFrom(g2, to.row, to.col)
            THEN g2.currentPlayer = g.currentPlayer /\ g2.mustContinueFrom = to
            ELSE g2.currentPlayer = opp /\ g2.mustContinueFrom = NoPos]_vars

\* a capture was applied and the same player continues from the landing square
TurnRuleWitness ==
  /\ ev.type = "makeMove" /\ ev.reply = "gameUpdate"
  /\ ev.room \in DOMAIN rooms
  /\ rooms[ev.room].game.mustContinueFrom = ev.to
  /\ rooms[ev.room].game.currentPlayer
       = getPlayerColor(rooms[ev.room], ev.socket)

\* C2: while the current player has a capture (playerHasAnyCapture), every
\* move isValidMove accepts for that player passes over an enemy piece: no
\* one-square step of a man and no slide of a king over no enemy is accepted.
ForcedCapture ==
  \A r \in DOMAIN rooms :
    LET g == rooms[r].game
        color == g.currentPlayer
    IN playerHasAnyCapture(g, color) =>
         \A from \in Squares, to \in Squares :
           isValidMoveGiven(g, from, to, color, TRUE)
             => jumpsEnemy(g.board, from, to, color)

\* a simple move that would be legal without the rule was answered mustCapture
ForcedCaptureWitness ==
  /\ ev.reply = "mustCapture"
  /\ \E r \in DOMAIN rooms :
       LET g == rooms[r].game
       IN /\ playerHasAnyCapture(g, g.currentPlayer)
          /\ \E from \in Squares, to \in Squares :
               /\ ~jumpsEnemy(g.board, from, to, g.currentPlayer)
               /\ isValidMoveGiven(g, from, to, g.currentPlayer, FALSE)
               /\ ~isValidMove(g, from, to, g.currentPlayer)

\* C3: while mustContinueFrom is set, every move isValidMove accepts, for
\* either colour, starts at that square and passes over an enemy piece.
ChainEnforcement ==
  \A r \in DOMAIN rooms :
    LET g == rooms[r].game
    IN g.mustContinueFrom # NoPos =>
         \A color \in {"w", "b"} :
           LET hasAnyCapture == playerHasAnyCapture(g, color)
           IN \A from \in Squares, to \in Squares :
                isValidMoveGiven(g, from, to, color, hasAnyCapture)
                  => from = g.mustContinueFrom /\ jumpsEnemy(g.board, from, to, color)

\* a chain is open, another piece of the player could capture, and the
\* capture from the chain square is accepted
ChainEnforcementWitness ==
  \E r \in DOMAIN rooms :
    LET g == rooms[r].game
        color == g.currentPlayer
    IN /\ g.mustContinueFrom # NoPos
       /\ \E p \in squaresOf(g.board, color) :
            p # g.mustContinueFrom /\ hasCaptureFrom(g, p.row, p.col)
       /\ \E to \in Squares : isValidMove(g, g.mustContinueFrom, to, color)

\* C4: a makeMove request that isValidMove rejects leaves the registry as it
\* was: every room's game (board, currentPlayer, status, winner,
\* mustContinueFrom) and every room's player mapping.
RejectionKeepsState ==
  [][MoveRejected => rooms' = rooms]_vars

\* a request was rejected in a game in which a move had been applied
RejectionKeepsStateWitness ==
  /\ ev.type = "makeMove" /\ ev.reply = "invalidMove"
  /\ ev.room \in DOMAIN rooms
  /\ rooms[ev.room].game.status = "playing"
  /\ rooms[ev.room].game.board # createInitialBoard
  /\ moves[ev.room] > 0

\* C5: a move is applied only when, as the request is handled, the game is
\* playing and the colour of the requesting player is currentPlayer.
OnlyTheMoverMoves ==
  [][MoveApplied =>
       LET room == rooms[ev'.room]
       IN /\ room.game.status = "playing"
          /\ getPlayerColor(room, ev'.socket) = room.game.currentPlayer]_vars

\* a move of the black player was applied while the white player is in the room
OnlyTheMoverMovesWitness ==
  /\ ev.type = "makeMove" /\ ev.reply = "gameUpdate"
  /\ ev.room \in DOMAIN rooms
  /\ getPlayerColor(rooms[ev.room], ev.socket) = "b"
  /\ \E s \in DOMAIN rooms[ev.room].players : rooms[ev.room].players[s].color = "w"

\* C6: an applied move that lands a white man on row 0 or a black man on row
\* 7 leaves a king of that colour on the landing square, and the decision to
\* continue is taken for that king; a king that moves stays a king and no
\* square that held a king holds a man afterwards.
Promotion ==
  [][MoveApplied =>
       LET g == rooms[ev'.room].game
           g2 == rooms'[ev'.room].game
           from == ev'.from
           to == ev'.to
           piece == g.board[from.row][from.col]
           landed == g2.board[to.row][to.col]
           opp == other(g.currentPlayer)
           tookOne == Cardinality(squaresOf(g2.board, opp))
                        < Cardinality(squaresOf(g.board, opp))
       IN /\ piece = "w" /\ to.row = 0 => landed = "W"
          /\ piece = "b" /\ to.row = 7 => landed = "B"
          /\ isKingPiece(piece) => landed = piece
          /\ \A p \in Squares :
               isKingPiece(g.board[p.row][p.col]) => ~isMan(g2.board[p.row][p.col])
          /\ isMan(piece) /\ isKingPiece(landed) /\ tookOne
               => (g2.mustContinueFrom = to <=> hasKingCaptureFrom(g2, to.row, to.col))]_vars

\* a man captured onto row 0, was crowned and continues as a king
PromotionWitness ==
  /\ ev.type = "makeMove" /\ ev.reply = "gameUpdate"
  /\ ev.room \in DOMAIN rooms
  /\ ev.to.row = 0 /\ ev.from.row = 2
  /\ rooms[ev.room].game.board[ev.to.row][ev.to.col] = "W"
  /\ rooms[ev.room].game.mustContinueFrom = ev.to
  /\ ~hasRegularCaptureFrom(rooms[ev.room].game, ev.to.row, ev.to.col)

\* C7: every move of a man that isValidMove accepts is a one-square diagonal
\* step or a jump to (r+-2, c+-2) over a piece of the other colour onto an
\* empty square; a jump over an empty square or an own piece is rejected.
ManCaptureGeometry ==
  \A r \in DOMAIN rooms :
    LET g == rooms[r].game
        color == g.currentPlayer
        hasAnyCapture == playerHasAnyCapture(g, color)
    IN \A from \in squaresOf(g.board, color) :
         isMan(g.board[from.row][from.col]) =>
           \A to \in Squares :
             isValidMoveGiven(g, from, to, color, hasAnyCapture) =>
               LET dr == to.row - from.row
                   dc == to.col - from.col
               IN \/ Abs(dr) = 1 /\ Abs(dc) = 1
                  \/ /\ Abs(dr) = 2 /\ Abs(dc) = 2
                     /\ colorOf(g.board[from.row + dr \div 2][from.col + dc \div 2])
                          = other(color)
                     /\ g.board[to.row][to.col] = null

\* a man has jumped, and the player has a man next to an own piece with an
\* empty square behind it
ManCaptureGeometryWitness ==
  /\ ev.type = "makeMove" /\ ev.reply = "gameUpdate"
  /\ Abs(ev.to.row - ev.from.row) = 2
  /\ ev.room \in DOMAIN rooms
  /\ isMan(rooms[ev.room].game.board[ev.to.row][ev.to.col])
  /\ LET g == rooms[ev.room].game
     IN \E from \in squaresOf(g.board, g.currentPlayer), to \in Squares :
          /\ isMan(g.board[from.row][from.col])
          /\ Abs(to.row - from.row) = 2 /\ Abs(to.col - from.col) = 2
          /\ g.board[to.row][to.col] = null
          /\ between(from, to) \cap squaresOf(g.board, g.currentPlayer) # {}
          /\ ~isValidMove(g, from, to, g.currentPlayer)

\* C8: every move of a king that isValidMove accepts runs along a diagonal
\* onto an empty square with no own piece and at most one enemy piece between;
\* and every empty square of a diagonal with exactly one enemy piece and
\* nothing else between it and the king is accepted.
KingCaptureRange ==
  \A r \in DOMAIN rooms :
    LET g == rooms[r].game
        color == g.currentPlayer
        hasAnyCapture == playerHasAnyCapture(g, color)
    IN \A from \in squaresOf(g.board, color) :
         isKingPiece(g.board[from.row][from.col]) =>
           \A to \in Squares :
             LET valid == isValidMoveGiven(g, from, to, color, hasAnyCapture)
                 path == between(from, to)
                 enemies == path \cap squaresOf(g.board, other(color))
                 own == path \cap squaresOf(g.board, color)
                 free == onDiagonal(from, to) /\ g.board[to.row][to.col] = null
                           /\ own = {}
             IN /\ valid => free /\ Cardinality(enemies) <= 1
                /\ /\ g.status = "playing"
                   /\ g.mustContinueFrom \in {NoPos, from}
                   /\ free /\ Cardinality(enemies) = 1
                   => valid

\* a king can take one enemy and land on two squares behind it, and has two
\* enemies in a row and an own piece on other diagonals
KingCaptureRangeWitness ==
  \E r \in DOMAIN rooms :
    LET g == rooms[r].game
        color == g.currentPlayer
    IN \E from \in squaresOf(g.board, color) :
         /\ isKingPiece(g.board[from.row][from.col])
         /\ \E t1 \in Squares, t2 \in Squares :
              /\ t1 # t2 /\ onDiagonal(t1, t2) /\ t1 \in between(from, t2)
              /\ Abs(t1.row - from.row) >= 3
              /\ isValidMove(g, from, t1, color) /\ isValidMove(g, from, t2, color)
         /\ \E t \in Squares :
              /\ g.board[t.row][t.col] = null
              /\ Cardinality(between(from, t) \cap squaresOf(g.board, other(color))) = 2
         /\ \E t \in Squares :
              /\ g.board[t.row][t.col] = null
              /\ onDiagonal(from, t)
              /\ between(from, t) \cap squaresOf(g.board, color) # {}

\* C9: whenever mustContinueFrom is set it names a square that holds a piece
\* of currentPlayer from which hasCaptureFrom holds; and a step that leaves
\* a game changed with mustContinueFrom set is an applied move that took a
\* piece and landed on that square.
ChainSquare ==
  /\ [](\A r \in DOMAIN rooms :
          LET g == rooms[r].game
              at == g.mustContinueFrom
          IN at # NoPos =>
               /\ at \in Squares
               /\ colorOf(g.board[at.row][at.col]) = g.currentPlayer
               /\ hasCaptureFrom(g, at.row, at.col))
  /\ [][\A r \in DOMAIN rooms' :
          LET g2 == rooms'[r].game
          IN /\ g2.mustContinueFrom # NoPos
             /\ (r \notin DOMAIN rooms \/ rooms[r].game # g2)
             => /\ MoveApplied /\ ev'.room = r /\ ev'.to = g2.mustContinueFrom
                /\ r \in DOMAIN rooms
                /\ Cardinality(squaresOf(g2.board, other(g2.currentPlayer)))
                     = Cardinality(squaresOf(rooms[r].game.board,
                                             other(g2.currentPlayer))) - 1]_vars

\* a chain is open at the square of the last applied move, which moved on
\* from the square of an earlier capture
ChainSquareWitness ==
  /\ ev.type = "makeMove" /\ ev.reply = "gameUpdate"
  /\ ev.room \in DOMAIN rooms
  /\ rooms[ev.room].game.mustContinueFrom = ev.to
  /\ moves[ev.room] = 2
  /\ isMan(rooms[ev.room].game.board[ev.to.row][ev.to.col])
  /\ Cardinality(squaresOf(rooms[ev.room].game.board,
                           other(rooms[ev.room].game.currentPlayer))) = 3

\* the setup of the specification: 12 black men on the dark squares of rows
\* 0-2, 12 white men on the dark squares of rows 5-7, nothing else
standardSetup(board) ==
  LET dark(rows) == {p \in Squares : p.row \in rows /\ (p.row + p.col) % 2 = 1}
  IN /\ {p \in Squares : board[p.row][p.col] = "b"} = dark(0 .. 2)
     /\ {p \in Squares : board[p.row][p.col] = "w"} = dark(5 .. 7)
     /\ Cardinality(dark(0 .. 2)) = 12 /\ Cardinality(dark(5 .. 7)) = 12
     /\ \A p \in Squares \ (dark(0 .. 2) \cup dark(5 .. 7)) : board[p.row][p.col] = null

\* C10: createNewGame returns the standard setup with white to move, status
\* waiting, no winner and no chain; and every step that creates a room or
\* replaces a room's game (accepted reset, disconnect) installs that game,
\* the accepted reset of a room of two players with status playing.
NewGameSetup ==
  /\ standardSetup(createNewGame.board)
  /\ createNewGame.currentPlayer = "w" /\ createNewGame.status = "waiting"
  /\ createNewGame.winner = null /\ createNewGame.mustContinueFrom = NoPos
  /\ [][\A r \in DOMAIN rooms' :
          LET g2 == rooms'[r].game
              reset == ev'.type = "resetResponse" /\ ev'.reply = "resetConfirmed"
                         /\ ev'.room = r
              left == ev'.type = "disconnect" /\ r \in DOMAIN rooms
                        /\ ev'.socket \in DOMAIN rooms[r].players
          IN r \notin DOMAIN rooms \/ reset \/ left
               => /\ standardSetup(g2.board)
                  /\ g2.currentPlayer = "w"
                  /\ g2.winner = null
                  /\ g2.mustContinueFrom = NoPos
                  /\ g2.status = IF reset /\ countPlayers(rooms'[r]) = 2
                                   THEN "playing" ELSE "waiting"]_vars

\* an accepted reset has replaced a game in progress by the standard setup
NewGameSetupWitness ==
  /\ ev.type = "resetResponse" /\ ev.reply = "resetConfirmed"
  /\ ev.room \in DOMAIN rooms
  /\ standardSetup(rooms[ev.room].game.board)
  /\ rooms[ev.room].game.status = "playing"
  /\ moves[ev.room] = 0

\* C11: in every room winner is null and status is waiting or playing,
\* also when the player to move has no piece or no move that isValidMove
\* accepts.
NoWinner ==
  \A r \in DOMAIN rooms :
    /\ rooms[r].game.winner = null
    /\ rooms[r].game.status \in {"waiting", "playing"}

\* the last piece of the player to move was taken and the game goes on
NoWinnerWitness ==
  /\ ev.type = "makeMove" /\ ev.reply = "gameUpdate"
  /\ ev.room \in DOMAIN rooms
  /\ LET g == rooms[ev.room].game
     IN /\ g.status = "playing" /\ g.winner = null
        /\ squaresOf(g.board, g.currentPlayer) = {}
        /\ \A from \in Squares, to \in Squares :
             ~isValidMoveGiven(g, from, to, g.currentPlayer, FALSE)

\* C12: a room's player mapping never has more than two entries, and a
\* joinRoom for a room that has two players is answered roomFull and leaves
\* the player mappings and the games as they were.
AtMostTwoPlayers ==
  /\ [](\A r \in DOMAIN rooms : countPlayers(rooms[r]) <= 2)
  /\ [][\A r \in DOMAIN rooms :
          /\ ev'.type = "joinRoom" /\ ev'.room = r
          /\ countPlayers(rooms[r]) = 2
          => ev'.reply = "roomFull" /\ rooms' = rooms]_vars

\* a third connection was turned away from a room of two others
AtMostTwoPlayersWitness ==
  /\ ev.type = "joinRoom" /\ ev.reply = "roomFull"
  /\ ev.room \in DOMAIN rooms
  /\ countPlayers(rooms[ev.room]) = 2
  /\ ev.socket \notin DOMAIN rooms[ev.room].players

\* C13: whenever a room has two players one is white and the other black,
\* so that a playing game has a player whose colour is currentPlayer.
\* joinRoom gives "w" to the player of an empty room and "b" to any other:
\* the statement fails once the white player has left or has joined again.
TwoColours ==
  \A r \in DOMAIN rooms :
    countPlayers(rooms[r]) = 2 =>
      /\ {rooms[r].players[s].color : s \in DOMAIN rooms[r].players} = {"w", "b"}
      /\ rooms[r].game.status = "playing" =>
           \E s \in DOMAIN rooms[r].players :
             rooms[r].players[s].color = rooms[r].game.currentPlayer

\* C14: in every room the status of the game is playing if exactly two
\* players are registered and waiting otherwise.
StatusFollowsPlayers ==
  \A r \in DOMAIN rooms :
    rooms[r].game.status =
      IF countPlayers(rooms[r]) = 2 THEN "playing" ELSE "waiting"

\* a player has left a room of two and the other waits in a new game
StatusFollowsPlayersWitness ==
  /\ ev.type = "disconnect"
  /\ \E r \in DOMAIN rooms :
       /\ countPlayers(rooms[r]) = 1
       /\ ev.socket \notin DOMAIN rooms[r].players
       /\ rooms[r].game.status = "waiting"

\* C15: a disconnect of a player replaces the game of a room in which another
\* player stays by a new game (standard setup, white to move, no chain) and
\* removes a room in which nobody stays; no room without a player exists.
DisconnectRenewsOrRemoves ==
  /\ [](\A r \in DOMAIN rooms : countPlayers(rooms[r]) >= 1)
  /\ [][ev'.type = "disconnect" =>
          \A r \in DOMAIN rooms :
            ev'.socket \in DOMAIN rooms[r].players =>
              IF countPlayers(rooms[r]) = 1
                THEN r \notin DOMAIN rooms'
                ELSE /\ r \in DOMAIN rooms'
                     /\ DOMAIN rooms'[r].players = DOMAIN rooms[r].players \ {ev'.socket}
                     /\ standardSetup(rooms'[r].game.board)
                     /\ rooms'[r].game.currentPlayer = "w"
                     /\ rooms'[r].game.mustContinueFrom = NoPos]_vars

\* the last player of a room has left and the registry holds no room
DisconnectRenewsOrRemovesWitness ==
  /\ ev.type = "disconnect"
  /\ DOMAIN rooms = {}

\* C16: the makeMove handler answers mustCapture only to a request of the
\* player to move in a playing game that isValidMove would accept if no
\* capture were available. The rejection branch of the handler looks at the
\* shape of the move and at playerHasAnyCapture only: it sends mustCapture
\* also to the player whose turn it is not, for a piece off the chain square,
\* for a backward step of a man and for a king's slide over an own piece.
MustCaptureOnlyWhenForced ==
  \A r \in DOMAIN rooms : \A s \in DOMAIN rooms[r].players :
    LET g == rooms[r].game
        color == getPlayerColor(rooms[r], s)
        hasAnyCapture == playerHasAnyCapture(g, color)
    IN \A from \in Squares, to \in Squares :
         moveEvent(r, g, s, color, from, to, hasAnyCapture).reply = "mustCapture" =>
           /\ g.status = "playing"
           /\ g.currentPlayer = color
           /\ isValidMoveGiven(g, from, to, color, FALSE)

\* C17: when the player to move in a playing game has a capture somewhere on
\* the board, every request of that player for a simple move (a man's
\* one-square diagonal step, a king's diagonal slide over no enemy piece, onto
\* an empty square) is answered mustCapture.
SimpleMoveGetsMustCapture ==
  \A r \in DOMAIN rooms : \A s \in DOMAIN rooms[r].players :
    LET g == rooms[r].game
        color == getPlayerColor(rooms[r], s)
        hasAnyCapture == playerHasAnyCapture(g, color)
        enemy == squaresOf(g.board, other(color))
    IN /\ g.status = "playing" /\ g.currentPlayer = color
       /\ \E p \in squaresOf(g.board, color) : hasCaptureFrom(g, p.row, p.col)
       => \A from \in squaresOf(g.board, color) : \A to \in Squares :
            /\ g.board[to.row][to.col] = null
            /\ onDiagonal(from, to)
            /\ IF isMan(g.board[from.row][from.col])
                 THEN Abs(to.row - from.row) = 1
                 ELSE between(from, to) \cap enemy = {}
            => moveEvent(r, g, s, color, from, to, hasAnyCapture).reply = "mustCapture"

\* the player to move, who has a king that can slide and a capture to make,
\* was answered mustCapture
SimpleMoveGetsMustCaptureWitness ==
  /\ ev.type = "makeMove" /\ ev.reply = "mustCapture"
  /\ ev.room \in DOMAIN rooms
  /\ LET g == rooms[ev.room].game
         color == getPlayerColor(rooms[ev.room], ev.socket)
     IN /\ g.status = "playing" /\ g.currentPlayer = color
        /\ \E from \in squaresOf(g.board, color), to \in Squares :
             /\ isKingPiece(g.board[from.row][from.col])
             /\ onDiagonal(from, to) /\ g.board[to.row][to.col] = null
             /\ Abs(to.row - from.row) >= 2
             /\ between(from, to) \cap squaresOf(g.board, other(color)) = {}

\* C18: every makeMove request, however malformed, resolves to an accept or a
\* reject decision: the handler answers it with the game update or with one
\* of the two rejections, and no error is raised. A request that leaves out
\* from or to makes the destructuring of isValidMove, or of the rejection
\* branch, throw a TypeError.
EveryRequestIsDecided ==
  ev.type = "makeMove" => ev.reply \in {"gameUpdate", "invalidMove", "mustCapture"}

\* C19: every handler that changes the game of a room emits a gameUpdate with
\* the whole game to the room before it returns, so that between requests the
\* snapshot a room last got is the game of the room (board, currentPlayer,
\* status, winner, mustContinueFrom).
SnapshotIsCurrent ==
  /\ [](/\ DOMAIN lastUpdate = DOMAIN rooms
        /\ \A r \in DOMAIN rooms : lastUpdate[r] = rooms[r].game)
  /\ [][\A r \in DOMAIN rooms' :
          (r \notin DOMAIN rooms \/ rooms'[r].game # rooms[r].game)
            => /\ ev'.type \in {"joinRoom", "makeMove", "resetResponse", "disconnect"}
               /\ r \in DOMAIN lastUpdate'
               /\ lastUpdate'[r] = rooms'[r].game
               /\ (r \notin DOMAIN lastUpdate \/ lastUpdate'[r] # lastUpdate[r])]_vars

\* the snapshot of an applied capture carries the open chain
SnapshotIsCurrentWitness ==
  /\ ev.type = "makeMove" /\ ev.reply = "gameUpdate"
  /\ ev.room \in DOMAIN lastUpdate
  /\ lastUpdate[ev.room].mustContinueFrom = ev.to
  /\ lastUpdate[ev.room].board[ev.from.row][ev.from.col] = null
  /\ lastUpdate[ev.room].board[ev.to.row][ev.to.col] # null

\* C20: a move of a man that isValidMove accepts and that is no two-square
\* jump is one diagonal square toward the other side (row - 1 for white, row
\* + 1 for black), so a backward step is rejected; a two-square jump of a man
\* over an enemy piece onto an empty square is accepted in all four
\* directions.
ManDirection ==
  \A r \in DOMAIN rooms :
    LET g == rooms[r].game
        color == g.currentPlayer
        hasAnyCapture == playerHasAnyCapture(g, color)
        forward == IF color = "w" THEN -1 ELSE 1
    IN \A from \in squaresOf(g.board, color) :
         isMan(g.board[from.row][from.col]) =>
           \A to \in Squares :
             LET dr == to.row - from.row
                 dc == to.col - from.col
                 valid == isValidMoveGiven(g, from, to, color, hasAnyCapture)
                 jump == Abs(dr) = 2 /\ Abs(dc) = 2
             IN /\ valid /\ ~jump => dr = forward /\ Abs(dc) = 1
                /\ dr = -forward /\ Abs(dc) = 1 => ~valid
                /\ /\ jump
                   /\ g.status = "playing"
                   /\ g.mustContinueFrom \in {NoPos, from}
                   /\ colorOf(g.board[from.row + dr \div 2][from.col + dc \div 2])
                        = other(color)
                   /\ g.board[to.row][to.col] = null
                   => valid

\* a black man has captured backward, toward row 0
ManDirectionWitness ==
  /\ ev.type = "makeMove" /\ ev.reply = "gameUpdate"
  /\ ev.room \in DOMAIN rooms
  /\ rooms[ev.room].game.board[ev.to.row][ev.to.col] = "b"
  /\ ev.to.row = ev.from.row - 2

\* C21: an applied move empties the from square, puts the moving piece (a
\* king if it is promoted) on the to square and, when it passes over an enemy
\* piece, empties the square of that one piece; every other square, status
\* and winner stay as they were. A capture lowers the number of pieces of the
\* opponent by one, a simple move lowers none, and the number of pieces of
\* the mover never changes.
MoveFrame ==
  [][MoveApplied =>
       LET g == rooms[ev'.room].game
           g2 == rooms'[ev'.room].game
           from == ev'.from
           to == ev'.to
           piece == g.board[from.row][from.col]
           mover == colorOf(piece)
           taken == {p \in Squares \ {from, to} :
                       g2.board[p.row][p.col] # g.board[p.row][p.col]}
           capture == jumpsEnemy(g.board, from, to, mover)
       IN /\ g2.board[from.row][from.col] = null
          /\ g2.board[to.row][to.col] \in {piece, toUpperCase(piece)}
          /\ \A p \in taken :
               /\ p \in between(from, to)
               /\ colorOf(g.board[p.row][p.col]) = other(mover)
               /\ g2.board[p.row][p.col] = null
          /\ Cardinality(taken) = IF capture THEN 1 ELSE 0
          /\ g2.status = g.status /\ g2.winner = g.winner
          /\ Cardinality(squaresOf(g2.board, other(mover)))
               = Cardinality(squaresOf(g.board, other(mover))) - (IF capture THEN 1 ELSE 0)
          /\ Cardinality(squaresOf(g2.board, mover))
               = Cardinality(squaresOf(g.board, mover))]_vars

\* a king has moved three squares or more and took the one piece on its way
MoveFrameWitness ==
  /\ ev.type = "makeMove" /\ ev.reply = "gameUpdate"
  /\ ev.room \in DOMAIN rooms
  /\ Abs(ev.to.row - ev.from.row) >= 3
  /\ LET g == rooms[ev.room].game
     IN /\ isKingPiece(g.board[ev.to.row][ev.to.col])
        /\ \A p \in between(ev.from, ev.to) : g.board[p.row][p.col] = null
        /\ moves[ev.room] = 1
        /\ Cardinality(squaresOf(g.board, g.currentPlayer)) = 3
        /\ g.board[4][3] = null /\ g.board[5][2] = "w"

\* C22: in a playing game, for every square s that holds a piece of the
\* player to move, with no chain open or with the chain at s, hasCaptureFrom
\* holds at s exactly if isValidMove accepts a move from s that passes over
\* an enemy piece; and whenever playerHasAnyCapture holds for the player to
\* move, isValidMove accepts some move of that player.
ScannerAgreesWithChecker ==
  \A r \in DOMAIN rooms :
    LET g == rooms[r].game
        color == g.currentPlayer
        hasAnyCapture == playerHasAnyCapture(g, color)
        own == squaresOf(g.board, color)
    IN g.status = "playing" =>
         /\ \A s \in own :
              g.mustContinueFrom \in {NoPos, s} =>
                (hasCaptureFrom(g, s.row, s.col)
                   <=> \E t \in Squares :
                         /\ isValidMoveGiven(g, s, t, color, hasAnyCapture)
                         /\ jumpsEnemy(g.board, s, t, color))
         /\ hasAnyCapture =>
              \E s \in own, t \in Squares :
                isValidMoveGiven(g, s, t, color, hasAnyCapture)

\* a chain is open at the square of the move just applied: the scanner and
\* the checker find the next capture there, and the scanner finds one from
\* another piece of the player too
ScannerAgreesWithCheckerWitness ==
  /\ ev.type = "makeMove" /\ ev.reply = "gameUpdate"
  /\ ev.room \in DOMAIN rooms
  /\ LET g == rooms[ev.room].game
         s == g.mustContinueFrom
     IN /\ g.status = "playing" /\ s = ev.to
        /\ hasCaptureFrom(g, s.row, s.col)
        /\ \E t \in Squares : /\ isValidMove(g, s, t, g.currentPlayer)
                              /\ jumpsEnemy(g.board, s, t, g.currentPlayer)
        /\ \E q \in squaresOf(g.board, g.currentPlayer) \ {s} :
             hasCaptureFrom(g, q.row, q.col)

\* C23: the reset protocol replaces the game of a room only when a player of
\* the room has sent resetGame and the other player of the room then answers
\* resetResponse with accepted = true; a resetGame alone and a declined
\* resetResponse change no game. The resetResponse handler tests nothing but
\* that the room exists: it replaces the game for any connection, with or
\* without a request.
ResetNeedsRequestAndConsent ==
  [][/\ ev'.type = "resetResponse" /\ ev'.reply = "resetConfirmed" =>
          LET players == DOMAIN rooms[ev'.room].players
          IN /\ pending[ev'.room] \in players
             /\ ev'.socket \in players
             /\ ev'.socket # pending[ev'.room]
     /\ ev'.type = "resetGame" \/ ev'.reply = "resetDeclined" => rooms' = rooms]_vars

=============================================================================
